---- MODULE Spec2Model ----
(***************************************************************************)
(* Resilient frontend (src/frontend/app_v2_resilient.py): the circuit      *)
(* breaker, the product cache with its TTL and the static fallback, as     *)
(* they are driven by the '/' handler.  Flask serves requests on threads,  *)
(* the breaker and the cache are module-level objects without a lock, so   *)
(* every read and every write of a shared attribute is one step of the     *)
(* request that makes it.  Times are in seconds.                           *)
(***************************************************************************)
EXTENDS Integers, Sequences, FiniteSets

VARIABLES
    failure_count,      \* CircuitBreaker.failure_count
    last_failure_time,  \* CircuitBreaker.last_failure_time (None or a time)
    state,              \* CircuitBreaker.state
    product_cache,      \* product_cache['data'], product_cache['timestamp']
    now,                \* what datetime.now() returns
    pc,                 \* per request: where its handler stands
    tmp,                \* per request: failure_count as read by line 48
    data,               \* per request: data['products'] of its response
    invoked,            \* per request: func(*args) of line 39 was called
    cached,             \* per request: index()'s cached
    products,           \* per request: index()'s products
    source,             \* per request: index()'s source
    streak              \* history: calls that failed since the last call
                        \* that succeeded (counted up to MaxFailures)

vars == <<failure_count, last_failure_time, state, product_cache, now,
          pc, tmp, data, invoked, cached, products, source, streak>>

breaker == <<failure_count, last_failure_time, state>>
locals  == <<tmp, data, invoked, cached, products, source>>

----------------------------------------------------------------------------
\* Bounds of the model.
MaxFailures == 4       \* failure_count is not raised beyond this

\* The requests that may be in progress at the same time.
Threads == {1, 2}

\* The instants at which the clock is read: around one breaker timeout and
\* around one cache lifetime (the differences 30, 60, 300 and 330 all occur).
Instants == {0, 30, 60, 300, 330}
LastInstant == CHOOSE i \in Instants : \A j \in Instants : j <= i

\* The instants at which the backend may fail a call, when it recovers.
FailingInstants == {0}

\* Python's None, and a value that is not None.
None    == << >>
Some(x) == << x >>
Val(o)  == o[1]

\* CircuitState
CLOSED    == "closed"
OPEN      == "open"
HALF_OPEN == "half_open"
CircuitState == {CLOSED, OPEN, HALF_OPEN}

\* circuit_breaker = CircuitBreaker(failure_threshold=3, timeout=30)
failure_threshold == 3
timeout == 30
\* product_cache['ttl']
ttl == 300

\* data['products'] of a response, as the sequence of its product ids:
\* the backend's catalogue, and an empty catalogue.
Payloads == { <<1, 2, 3, 4>>, << >> }

\* get_fallback_products(): three records, all with id 0.
get_fallback_products == <<0, 0, 0>>

\* Python truth value of a list or None (line 150, "if cached:").
Truthy(o) == o # None /\ Len(Val(o)) > 0

\* timedelta comparison of lines 32 and 73.
Expired(since, limit) == now - since > limit

----------------------------------------------------------------------------
Init ==
    /\ failure_count = 0
    /\ last_failure_time = None
    /\ state = CLOSED
    /\ product_cache = [data |-> None, timestamp |-> None]
    /\ now = 0
    /\ pc = [t \in Threads |-> "idle"]
    /\ tmp = [t \in Threads |-> 0]
    /\ data = [t \in Threads |-> None]
    /\ invoked = [t \in Threads |-> FALSE]
    /\ cached = [t \in Threads |-> None]
    /\ products = [t \in Threads |-> None]
    /\ source = [t \in Threads |-> "none"]
    /\ streak = 0

\* Time passes.
Tick ==
    /\ \E i \in Instants : i > now /\ now' = i
    /\ UNCHANGED <<breaker, product_cache, pc, locals, streak>>

\* Request u has func (line 39) in flight.
InProbe(u) == pc[u] = "inflight"

\* A request for '/' arrives: index() lines 135-137, up to circuit_breaker.call.
Begin(t) ==
    /\ pc[t] = "idle"
    /\ pc' = [pc EXCEPT ![t] = "check"]
    /\ UNCHANGED <<breaker, product_cache, now, locals, streak>>

\* Line 31: if self.state == OPEN; otherwise line 39 calls func.
CheckStateSingleProbe(t) ==
    /\ pc[t] = "check"
    /\ IF state = OPEN
         THEN /\ pc' = [pc EXCEPT ![t] = "elapsed"]
              /\ UNCHANGED invoked
         ELSE IF state = HALF_OPEN /\ \E u \in Threads : InProbe(u)
                THEN /\ pc' = [pc EXCEPT ![t] = "cache_data"]
                     /\ UNCHANGED invoked
                ELSE /\ pc' = [pc EXCEPT ![t] = "inflight"]
                     /\ invoked' = [invoked EXCEPT ![t] = TRUE]
    /\ UNCHANGED <<breaker, product_cache, now,
                   tmp, data, cached, products, source, streak>>

CheckState(t) ==
    /\ pc[t] = "check"
    /\ IF state = OPEN
         THEN /\ pc' = [pc EXCEPT ![t] = "elapsed"]
              /\ UNCHANGED invoked
         ELSE /\ pc' = [pc EXCEPT ![t] = "inflight"]
              /\ invoked' = [invoked EXCEPT ![t] = TRUE]
    /\ UNCHANGED <<breaker, product_cache, now,
                   tmp, data, cached, products, source, streak>>

\* Line 32: datetime.now() - self.last_failure_time > timedelta(timeout);
\* line 36 raises when it is not.  (Subtracting None raises a TypeError, which
\* index() line 145 catches like the exception of line 36.)
AllowProbeAtBoundary == now - Val(last_failure_time) >= timeout
AllowProbeSwapped == Val(last_failure_time) - now > timeout
AllowProbe == Expired(Val(last_failure_time), timeout)

CheckElapsedCountsDenial(t) ==
    /\ pc[t] = "elapsed"
    /\ IF last_failure_time # None /\ AllowProbe
         THEN pc' = [pc EXCEPT ![t] = "half"]
         ELSE pc' = [pc EXCEPT ![t] = "fail_read"]
    /\ UNCHANGED <<breaker, product_cache, now, locals, streak>>

CheckElapsed(t) ==
    /\ pc[t] = "elapsed"
    /\ IF last_failure_time # None /\ AllowProbe
         THEN pc' = [pc EXCEPT ![t] = "half"]
         ELSE pc' = [pc EXCEPT ![t] = "cache_data"]
    /\ UNCHANGED <<breaker, product_cache, now, locals, streak>>

\* Line 34: self.state = HALF_OPEN, then line 39 calls func.
SetClosedAfterTimeout(t) ==
    /\ pc[t] = "half"
    /\ state' = CLOSED
    /\ pc' = [pc EXCEPT ![t] = "inflight"]
    /\ invoked' = [invoked EXCEPT ![t] = TRUE]
    /\ UNCHANGED <<failure_count, last_failure_time, product_cache, now,
                   tmp, data, cached, products, source, streak>>

SetHalfOpen(t) ==
    /\ pc[t] = "half"
    /\ state' = HALF_OPEN
    /\ pc' = [pc EXCEPT ![t] = "inflight"]
    /\ invoked' = [invoked EXCEPT ![t] = TRUE]
    /\ UNCHANGED <<failure_count, last_failure_time, product_cache, now,
                   tmp, data, cached, products, source, streak>>

\* fetch_from_backend lines 88-93: the response arrives with a catalogue.
FetchSucceeds(t) ==
    /\ pc[t] = "inflight"
    /\ \E p \in Payloads : data' = [data EXCEPT ![t] = Some(p)]
    /\ pc' = [pc EXCEPT ![t] = "store_data"]
    /\ streak' = 0
    /\ UNCHANGED <<breaker, product_cache, now,
                   tmp, invoked, cached, products, source>>

\* fetch_from_backend lines 88-93 raise: timeout, connection error, bad status.
FetchFails(t) ==
    /\ pc[t] = "inflight"
    /\ pc' = [pc EXCEPT ![t] = "fail_read"]
    /\ streak' = IF streak < MaxFailures THEN streak + 1 ELSE streak
    /\ UNCHANGED <<breaker, product_cache, now, locals>>

\* Line 96: product_cache['data'] = data['products'].
StoreData(t) ==
    /\ pc[t] = "store_data"
    /\ product_cache' = [product_cache EXCEPT !.data = data[t]]
    /\ pc' = [pc EXCEPT ![t] = "store_ts"]
    /\ UNCHANGED <<breaker, now, locals, streak>>

\* Line 97: product_cache['timestamp'] = datetime.now(); line 99 returns.
StoreTimestampOnce(t) ==
    /\ pc[t] = "store_ts"
    /\ product_cache' = IF product_cache.timestamp = None
                          THEN [product_cache EXCEPT !.timestamp = Some(now)]
                          ELSE product_cache
    /\ pc' = [pc EXCEPT ![t] = "succ_count"]
    /\ UNCHANGED <<breaker, now, locals, streak>>

StoreTimestamp(t) ==
    /\ pc[t] = "store_ts"
    /\ product_cache' = [product_cache EXCEPT !.timestamp = Some(now)]
    /\ pc' = [pc EXCEPT ![t] = "succ_count"]
    /\ UNCHANGED <<breaker, now, locals, streak>>

\* Line 43: self.failure_count = 0.
CountOnSuccess == 0

SuccessCountClearsTime(t) ==
    /\ pc[t] = "succ_count"
    /\ failure_count' = CountOnSuccess
    /\ last_failure_time' = None
    /\ pc' = [pc EXCEPT ![t] = "succ_state"]
    /\ UNCHANGED <<state, product_cache, now, locals, streak>>

SuccessCount(t) ==
    /\ pc[t] = "succ_count"
    /\ failure_count' = CountOnSuccess
    /\ pc' = [pc EXCEPT ![t] = "succ_state"]
    /\ UNCHANGED <<last_failure_time, state, product_cache, now, locals,
                   streak>>

\* Line 44: self.state = CLOSED; line 45 returns the result and index()
\* lines 141-143 take it as the live products.
StateOnSuccessProbeOnly == IF state = HALF_OPEN THEN CLOSED ELSE state
StateOnSuccess == CLOSED

SuccessState(t) ==
    /\ pc[t] = "succ_state"
    /\ state' = StateOnSuccess
    /\ products' = [products EXCEPT ![t] = data[t]]
    /\ source' = [source EXCEPT ![t] = "backend"]
    /\ pc' = [pc EXCEPT ![t] = "done"]
    /\ UNCHANGED <<failure_count, last_failure_time, product_cache, now,
                   tmp, data, invoked, cached, streak>>

\* Line 48, self.failure_count += 1: the read of the attribute ...
FailureRead(t) ==
    /\ pc[t] = "fail_read"
    /\ tmp' = [tmp EXCEPT ![t] = failure_count]
    /\ pc' = [pc EXCEPT ![t] = "fail_write"]
    /\ UNCHANGED <<breaker, product_cache, now,
                   data, invoked, cached, products, source, streak>>

\* ... and the store of the sum.
FailureWrite(t) ==
    /\ pc[t] = "fail_write"
    /\ tmp[t] + 1 <= MaxFailures
    /\ failure_count' = tmp[t] + 1
    /\ tmp' = [tmp EXCEPT ![t] = 0]
    /\ pc' = [pc EXCEPT ![t] = "fail_time"]
    /\ UNCHANGED <<last_failure_time, state, product_cache, now,
                   data, invoked, cached, products, source, streak>>

\* Line 49: self.last_failure_time = datetime.now().
FailureTimeDropsCache(t) ==
    /\ pc[t] = "fail_time"
    /\ last_failure_time' = Some(now)
    /\ product_cache' = [data |-> None, timestamp |-> None]
    /\ pc' = [pc EXCEPT ![t] = "fail_cmp"]
    /\ UNCHANGED <<failure_count, state, now, locals, streak>>

FailureTime(t) ==
    /\ pc[t] = "fail_time"
    /\ last_failure_time' = Some(now)
    /\ pc' = [pc EXCEPT ![t] = "fail_cmp"]
    /\ UNCHANGED <<failure_count, state, product_cache, now, locals, streak>>

\* Line 51: if self.failure_count >= self.failure_threshold; line 55
\* re-raises when it is not.
ReopenOnAnyProbeFailure ==
    state = HALF_OPEN \/ failure_count >= failure_threshold
ThresholdExceeded == failure_count > failure_threshold
ThresholdHit == failure_count = failure_threshold
ThresholdReached == failure_count >= failure_threshold

FailureCompare(t) ==
    /\ pc[t] = "fail_cmp"
    /\ IF ThresholdReached
         THEN pc' = [pc EXCEPT ![t] = "fail_open"]
         ELSE pc' = [pc EXCEPT ![t] = "cache_data"]
    /\ UNCHANGED <<breaker, product_cache, now, locals, streak>>

\* Line 53: self.state = OPEN; line 55 re-raises.
FailureOpen(t) ==
    /\ pc[t] = "fail_open"
    /\ state' = OPEN
    /\ pc' = [pc EXCEPT ![t] = "cache_data"]
    /\ UNCHANGED <<failure_count, last_failure_time, product_cache, now,
                   locals, streak>>

\* index() lines 149-171, once get_cached_products has returned c:
\* "if cached:" takes the cache, else the static fallback.
UseCached(t, c) ==
    /\ cached' = [cached EXCEPT ![t] = c]
    /\ IF Truthy(c)
         THEN /\ products' = [products EXCEPT ![t] = c]
              /\ source' = [source EXCEPT ![t] = "cache"]
         ELSE /\ products' = [products EXCEPT ![t] = Some(get_fallback_products)]
              /\ source' = [source EXCEPT ![t] = "fallback"]
    /\ pc' = [pc EXCEPT ![t] = "done"]

\* get_cached_products line 69: if product_cache['data'] is None: return None.
CacheData(t) ==
    /\ pc[t] = "cache_data"
    /\ IF product_cache.data = None
         THEN UseCached(t, None)
         ELSE /\ pc' = [pc EXCEPT ![t] = "cache_ts"]
              /\ UNCHANGED <<cached, products, source>>
    /\ UNCHANGED <<breaker, product_cache, now, tmp, data, invoked, streak>>

\* get_cached_products line 73: datetime.now() - product_cache['timestamp']
\* > timedelta(ttl): return None.  Subtracting None raises a TypeError, in
\* the except block of index(), which nothing catches.
CacheStaleAtBoundary == now - Val(product_cache.timestamp) >= ttl
CacheStale == Expired(Val(product_cache.timestamp), ttl)

CacheTimestamp(t) ==
    /\ pc[t] = "cache_ts"
    /\ IF product_cache.timestamp = None
         THEN /\ pc' = [pc EXCEPT ![t] = "raised"]
              /\ UNCHANGED <<cached, products, source>>
         ELSE IF CacheStale
                THEN UseCached(t, None)
                ELSE /\ pc' = [pc EXCEPT ![t] = "cache_ret"]
                     /\ UNCHANGED <<cached, products, source>>
    /\ UNCHANGED <<breaker, product_cache, now, tmp, data, invoked, streak>>

\* get_cached_products line 76: return product_cache['data'].
CacheReturn(t) ==
    /\ pc[t] = "cache_ret"
    /\ UseCached(t, product_cache.data)
    /\ UNCHANGED <<breaker, product_cache, now, tmp, data, invoked, streak>>

\* The handler is over: lines 174-187 render products, or the uncaught
\* exception leaves index().  The thread is free for the next request.
Finish(t) ==
    /\ pc[t] \in {"done", "raised"}
    /\ pc' = [pc EXCEPT ![t] = "idle"]
    /\ data' = [data EXCEPT ![t] = None]
    /\ invoked' = [invoked EXCEPT ![t] = FALSE]
    /\ cached' = [cached EXCEPT ![t] = None]
    /\ products' = [products EXCEPT ![t] = None]
    /\ source' = [source EXCEPT ![t] = "none"]
    /\ UNCHANGED <<breaker, product_cache, now, tmp, streak>>

Next ==
    \/ Tick
    \/ \E t \in Threads : Begin(t)
    \/ \E t \in Threads : CheckState(t)
    \/ \E t \in Threads : CheckElapsed(t)
    \/ \E t \in Threads : SetHalfOpen(t)
    \/ \E t \in Threads : FetchSucceeds(t)
    \/ \E t \in Threads : FetchFails(t)
    \/ \E t \in Threads : StoreData(t)
    \/ \E t \in Threads : StoreTimestamp(t)
    \/ \E t \in Threads : SuccessCount(t)
    \/ \E t \in Threads : SuccessState(t)
    \/ \E t \in Threads : FailureRead(t)
    \/ \E t \in Threads : FailureWrite(t)
    \/ \E t \in Threads : FailureTime(t)
    \/ \E t \in Threads : FailureCompare(t)
    \/ \E t \in Threads : FailureOpen(t)
    \/ \E t \in Threads : CacheData(t)
    \/ \E t \in Threads : CacheTimestamp(t)
    \/ \E t \in Threads : CacheReturn(t)
    \/ \E t \in Threads : Finish(t)

Spec == Init /\ [][Next]_vars

\* The same program when requests do not overlap: a request arrives only
\* while no other request is being handled.
BeginAlone(t) ==
    /\ \A u \in Threads : pc[u] = "idle"
    /\ Begin(t)

NextSeq ==
    \/ Tick
    \/ \E t \in Threads : BeginAlone(t)
    \/ \E t \in Threads : CheckState(t)
    \/ \E t \in Threads : CheckElapsed(t)
    \/ \E t \in Threads : SetHalfOpen(t)
    \/ \E t \in Threads : FetchSucceeds(t)
    \/ \E t \in Threads : FetchFails(t)
    \/ \E t \in Threads : StoreData(t)
    \/ \E t \in Threads : StoreTimestamp(t)
    \/ \E t \in Threads : SuccessCount(t)
    \/ \E t \in Threads : SuccessState(t)
    \/ \E t \in Threads : FailureRead(t)
    \/ \E t \in Threads : FailureWrite(t)
    \/ \E t \in Threads : FailureTime(t)
    \/ \E t \in Threads : FailureCompare(t)
    \/ \E t \in Threads : FailureOpen(t)
    \/ \E t \in Threads : CacheData(t)
    \/ \E t \in Threads : CacheTimestamp(t)
    \/ \E t \in Threads : CacheReturn(t)
    \/ \E t \in Threads : Finish(t)

SpecSeq == Init /\ [][NextSeq]_vars

\* The program with a backend that recovers: after FailingInstants no call
\* fails.  The server keeps taking requests and handling them (some request
\* thread always takes its next step; a single thread may be starved), and
\* the clock keeps advancing up to the last instant.
Healed == \A i \in FailingInstants : now > i

FetchFailsUnhealed(t) ==
    /\ ~Healed
    /\ FetchFails(t)

\* The backend answers with its catalogue (src/backend/app.py).
FetchCatalogue(t) ==
    /\ FetchSucceeds(t)
    /\ Truthy(data'[t])

NextLive ==
    \/ Tick
    \/ \E t \in Threads : Begin(t)
    \/ \E t \in Threads : CheckState(t)
    \/ \E t \in Threads : CheckElapsed(t)
    \/ \E t \in Threads : SetHalfOpen(t)
    \/ \E t \in Threads : FetchCatalogue(t)
    \/ \E t \in Threads : FetchFailsUnhealed(t)
    \/ \E t \in Threads : StoreData(t)
    \/ \E t \in Threads : StoreTimestamp(t)
    \/ \E t \in Threads : SuccessCount(t)
    \/ \E t \in Threads : SuccessState(t)
    \/ \E t \in Threads : FailureRead(t)
    \/ \E t \in Threads : FailureWrite(t)
    \/ \E t \in Threads : FailureTime(t)
    \/ \E t \in Threads : FailureCompare(t)
    \/ \E t \in Threads : FailureOpen(t)
    \/ \E t \in Threads : CacheData(t)
    \/ \E t \in Threads : CacheTimestamp(t)
    \/ \E t \in Threads : CacheReturn(t)
    \/ \E t \in Threads : Finish(t)

\* Every step of request thread t.
Run(t) ==
    \/ Begin(t) \/ CheckState(t) \/ CheckElapsed(t) \/ SetHalfOpen(t)
    \/ FetchCatalogue(t) \/ FetchFailsUnhealed(t)
    \/ StoreData(t) \/ StoreTimestamp(t) \/ SuccessCount(t) \/ SuccessState(t)
    \/ FailureRead(t) \/ FailureWrite(t) \/ FailureTime(t)
    \/ FailureCompare(t) \/ FailureOpen(t)
    \/ CacheData(t) \/ CacheTimestamp(t) \/ CacheReturn(t) \/ Finish(t)

SpecLive ==
    /\ Init /\ [][NextLive]_vars
    /\ WF_vars(Tick)
    /\ WF_vars(\E t \in Threads : Run(t))

----------------------------------------------------------------------------
\* Vocabulary of the properties.

\* Request t takes the step.
Stepped(t) == pc'[t] # pc[t]

\* Request t is inside circuit_breaker.call, past the checks of lines 31-32.
InCall(t) ==
    pc[t] \in {"half", "inflight", "store_data", "store_ts", "succ_count",
               "succ_state", "fail_read", "fail_write", "fail_time",
               "fail_cmp", "fail_open"}

\* Request t is over.
Ended(t) == pc[t] \in {"done", "raised"}

Live(t)     == pc[t] = "done" /\ source[t] = "backend"
Cached(t)   == pc[t] = "done" /\ source[t] = "cache"
Fallback(t) == pc[t] = "done" /\ source[t] = "fallback"

\* The cache holds a payload and its capture time.
EntryExists == product_cache.data # None /\ product_cache.timestamp # None
EntryAge    == now - Val(product_cache.timestamp)
FailureAge  == now - Val(last_failure_time)

----------------------------------------------------------------------------
\* C1: every request for '/' ends with live, cached or fallback products;
\* no exception leaves index().
C1_NeverRaises == \A t \in Threads : pc[t] # "raised"

\* C2: from the initial breaker, with no call having succeeded and every
\* failed call reported, failure_threshold - 1 failed calls leave the state
\* CLOSED and exactly failure_threshold failed calls leave it OPEN.
C2_ThresholdOpens ==
    ((\A t \in Threads : ~InCall(t)) /\ product_cache.data = None) =>
        /\ streak = failure_threshold - 1 => state = CLOSED
        /\ streak = failure_threshold => state = OPEN

\* C3: a request that finds the breaker OPEN no more than timeout after the
\* last failure is refused without func being called, and it ends with
\* cached or fallback products.
C3_FailFast ==
    /\ [][\A t \in Threads :
            (pc[t] = "elapsed" /\ Stepped(t) /\ last_failure_time # None
               /\ FailureAge <= timeout)
            => (pc'[t] = "cache_data" /\ ~invoked'[t])]_vars
    /\ [](\A t \in Threads :
            (Ended(t) /\ ~invoked[t]) => (Cached(t) \/ Fallback(t)))

\* C4: no step of a request that has not called func changes failure_count,
\* last_failure_time or state.
C4_DeniedNotCounted ==
    [][\A t \in Threads :
         (Stepped(t) /\ ~invoked[t] /\ ~invoked'[t]) => UNCHANGED breaker]_vars

C4_Witness ==
    \E t \in Threads :
        /\ pc[t] = "done" /\ ~invoked[t]
        /\ state = OPEN /\ failure_count >= failure_threshold

\* C5: once the call has failed or been refused, a fresh cache entry is
\* served as cached products with the stored payload, and a missing or
\* stale one gives the static fallback.
C5_Ladder ==
    [][\A t \in Threads : Stepped(t) =>
         /\ pc[t] = "cache_ret" =>
                (Cached(t)' /\ products'[t] = product_cache.data)
         /\ (pc[t] = "cache_data" /\ product_cache.data = None) =>
                (Fallback(t)' /\ products'[t] = Some(get_fallback_products))
         /\ (pc[t] = "cache_ts" /\ EntryExists /\ EntryAge > ttl) =>
                (Fallback(t)' /\ products'[t] = Some(get_fallback_products))
      ]_vars

\* C6: a request that finds the breaker OPEN is let through exactly when more
\* than timeout has passed since the last failure; it then sets HALF_OPEN
\* and calls func in the same step; and the state goes from OPEN to
\* HALF_OPEN by such a request only, never by the clock.
C6_HalfOpenProbe ==
    [][/\ \A t \in Threads : Stepped(t) =>
            /\ (pc[t] = "elapsed" /\ last_failure_time # None) =>
                   (pc'[t] = "half" <=> FailureAge > timeout)
            /\ pc[t] = "half" =>
                   (state' = HALF_OPEN /\ pc'[t] = "inflight" /\ invoked'[t])
       /\ (state = OPEN /\ state' = HALF_OPEN) =>
              \E t \in Threads : pc[t] = "half" /\ Stepped(t)
       /\ now' # now => state' = state
      ]_vars

C6_Witness ==
    \E t \in Threads :
        /\ pc[t] = "inflight" /\ state = HALF_OPEN
        /\ last_failure_time # None /\ FailureAge > timeout

\* C7: the report of a successful call stores 0 in failure_count and then
\* CLOSED in state, whatever the state was.
C7_Recovery ==
    [][\A t \in Threads : Stepped(t) =>
         /\ pc[t] = "succ_count" => failure_count' = 0
         /\ pc[t] = "succ_state" => (state' = CLOSED /\ Live(t)')
      ]_vars

C7_Witness ==
    \E t \in Threads :
        pc[t] = "succ_state" /\ state = OPEN /\ failure_count = 0

\* C8: the report of a failed call that finds failure_count below
\* failure_threshold leaves the state as it is, HALF_OPEN included; the state
\* is set to OPEN only by a report that found failure_count at or above
\* failure_threshold.
C8_HalfOpenBelowThreshold ==
    [][/\ \A t \in Threads : Stepped(t) =>
            /\ (pc[t] = "fail_cmp" /\ failure_count < failure_threshold) =>
                   (state' = state /\ pc'[t] = "cache_data")
            /\ pc'[t] = "fail_open" => failure_count >= failure_threshold
       /\ (state # OPEN /\ state' = OPEN) =>
              \E t \in Threads : pc[t] = "fail_open" /\ Stepped(t)
      ]_vars

C8_Witness ==
    \E t \in Threads :
        /\ pc[t] = "cache_data" /\ invoked[t]
        /\ state = HALF_OPEN
        /\ failure_count > 0 /\ failure_count < failure_threshold

\* C9: every report of a failed call raises failure_count by exactly one.
C9_NoLostUpdate ==
    [][\A t \in Threads :
         (pc[t] = "fail_write" /\ Stepped(t)) =>
             failure_count' = failure_count + 1]_vars

\* C10: get_cached_products returns the stored payload exactly when a payload
\* is stored and its capture time is no more than ttl ago, None otherwise;
\* a stale entry stays stale until the cache is written.
C10_CacheFreshness ==
    [][/\ \A t \in Threads : Stepped(t) =>
            /\ (pc[t] = "cache_data" /\ product_cache.data = None) =>
                   (pc'[t] = "done" /\ cached'[t] = None)
            /\ (pc[t] = "cache_ts" /\ EntryExists) =>
                   IF EntryAge <= ttl
                     THEN pc'[t] = "cache_ret"
                     ELSE pc'[t] = "done" /\ cached'[t] = None
            /\ pc[t] = "cache_ret" =>
                   (pc'[t] = "done" /\ cached'[t] = product_cache.data)
            /\ pc'[t] = "cache_ret" => (EntryExists /\ EntryAge <= ttl)
       /\ (EntryExists /\ EntryAge > ttl /\ product_cache' = product_cache)
              => EntryAge' > ttl
      ]_vars

C10_Witness ==
    \E t \in Threads :
        /\ pc[t] = "done" /\ invoked[t] /\ cached[t] = None
        /\ EntryExists /\ Truthy(product_cache.data) /\ EntryAge > ttl

\* C11: a request ends with live products only if it called func and the
\* call returned them; when requests do not overlap, the breaker is then
\* CLOSED with failure_count 0 and the cache holds the returned payload with
\* the clock reading that the same fetch stored at line 97.
C11_LiveAfterSuccess ==
    /\ [](\A t \in Threads : Live(t) =>
            /\ invoked[t] /\ data[t] # None /\ products[t] = data[t]
            /\ state = CLOSED /\ failure_count = 0
            /\ product_cache.data = products[t]
            /\ product_cache.timestamp # None
            /\ Val(product_cache.timestamp) <= now)
    /\ [][/\ \A t \in Threads : Stepped(t) =>
               /\ Live(t)' => pc[t] = "succ_state"
               /\ pc[t] = "store_ts" =>
                      product_cache' = [data |-> data[t],
                                        timestamp |-> Some(now)]
          /\ (\E t \in Threads : pc[t] \in {"succ_count", "succ_state", "done"})
                 => product_cache' = product_cache
         ]_vars

C11_Witness ==
    \E t \in Threads :
        /\ Live(t) /\ Truthy(products[t])
        /\ last_failure_time # None /\ FailureAge > timeout
        /\ product_cache = [data |-> products[t], timestamp |-> Some(now)]

\* C12: a request that reads the cache never finds a payload stored without
\* its capture time: when line 69 has found product_cache['data'] set, line
\* 73 finds product_cache['timestamp'] set.
C12_WholesaleEntry ==
    \A t \in Threads : pc[t] = "cache_ts" => product_cache.timestamp # None

\* C13: product_cache is written only by lines 96-97 of a request whose call
\* returned a response; no step of a request whose call failed or was refused
\* changes it; and cached products are the payload that line 96 stored last.
C13_CacheWrittenBySuccess ==
    [][/\ product_cache' # product_cache =>
              \E t \in Threads :
                  /\ Stepped(t) /\ pc[t] \in {"store_data", "store_ts"}
                  /\ invoked[t] /\ data[t] # None
       /\ \A t \in Threads :
              (Stepped(t) /\ data[t] = None) => product_cache' = product_cache
       /\ \A t \in Threads :
              (Stepped(t) /\ Cached(t)') =>
                  (data[t] = None /\ products'[t] = product_cache.data)
      ]_vars

C13_Witness ==
    \E t \in Threads :
        /\ Cached(t) /\ ~invoked[t] /\ state = OPEN
        /\ products[t] = product_cache.data /\ EntryExists /\ EntryAge > 0

\* C14: a request that finds the breaker HALF_OPEN calls func whatever the
\* other requests are doing, so two requests can have func in flight at the
\* same time while the state is HALF_OPEN.
C14_UnlimitedProbes ==
    [][\A t \in Threads :
         (pc[t] = "check" /\ Stepped(t) /\ state = HALF_OPEN) =>
             (pc'[t] = "inflight" /\ invoked'[t])]_vars

C14_Witness ==
    /\ state = HALF_OPEN
    /\ \E t \in Threads, u \in Threads :
           t # u /\ InProbe(t) /\ InProbe(u)

\* C15: the breaker starts CLOSED with failure_count 0 and, when requests do
\* not overlap, every change of state is one of: CLOSED to OPEN by a failure
\* report with failure_count at the threshold or above, OPEN to HALF_OPEN by
\* a request more than timeout after the last failure, HALF_OPEN to CLOSED
\* by a success report, HALF_OPEN to OPEN by a failure report with
\* failure_count at the threshold or above.
C15_Transitions ==
    /\ state = CLOSED /\ failure_count = 0
    /\ [][state' # state =>
            \E t \in Threads :
                /\ Stepped(t)
                /\ \/ /\ state = CLOSED /\ state' = OPEN
                      /\ pc[t] = "fail_open"
                      /\ failure_count >= failure_threshold
                   \/ /\ state = OPEN /\ state' = HALF_OPEN
                      /\ pc[t] = "half"
                      /\ last_failure_time # None /\ FailureAge > timeout
                   \/ /\ state = HALF_OPEN /\ state' = CLOSED
                      /\ pc[t] = "succ_state"
                   \/ /\ state = HALF_OPEN /\ state' = OPEN
                      /\ pc[t] = "fail_open"
                      /\ failure_count >= failure_threshold
         ]_vars

C15_Witness ==
    \E t \in Threads :
        /\ pc[t] = "cache_data" /\ invoked[t]
        /\ state = OPEN /\ failure_count > failure_threshold
        /\ product_cache.data # None

\* C16: when requests do not overlap, between two reports of the breaker the
\* state is CLOSED exactly when failure_count is below failure_threshold; in
\* particular a call made in HALF_OPEN finds failure_count at the threshold
\* or above.
C16_ClosedIffBelowThreshold ==
    /\ (\A t \in Threads : ~InCall(t)) =>
           (state = CLOSED <=> failure_count < failure_threshold)
    /\ \A t \in Threads :
           (InProbe(t) /\ state # CLOSED) =>
               (state = HALF_OPEN /\ failure_count >= failure_threshold)

C16_Witness ==
    \E t \in Threads :
        InProbe(t) /\ state = HALF_OPEN /\ failure_count > failure_threshold

\* C17: when requests do not overlap, the report of a call that failed in
\* HALF_OPEN stores the clock in last_failure_time and then OPEN in state,
\* and the next request is refused exactly while no more than timeout has
\* passed since that report.
C17_FailedProbeReopens ==
    [][\A t \in Threads : Stepped(t) =>
         /\ pc[t] = "fail_time" => last_failure_time' = Some(now)
         /\ (pc[t] = "fail_cmp" /\ state = HALF_OPEN) =>
                (pc'[t] = "fail_open" /\ UNCHANGED breaker)
         /\ pc[t] = "fail_open" =>
                (state' = OPEN /\ UNCHANGED last_failure_time
                   /\ pc'[t] = "cache_data")
         /\ (pc[t] \in {"cache_data", "cache_ts", "cache_ret", "done"}
               /\ invoked[t] /\ failure_count >= failure_threshold) =>
                (state = OPEN /\ UNCHANGED breaker)
         /\ pc[t] = "elapsed" =>
                /\ last_failure_time # None
                /\ pc'[t] = "cache_data" <=> FailureAge <= timeout
      ]_vars

C17_Witness ==
    \E t \in Threads :
        /\ pc[t] = "cache_data" /\ ~invoked[t]
        /\ state = OPEN /\ failure_count > failure_threshold
        /\ last_failure_time # None /\ FailureAge <= timeout /\ FailureAge > 0

\* C18: under every interleaving, whenever state is OPEN last_failure_time
\* is set, so line 32 never subtracts None; and last_failure_time, once set,
\* is never None again.
C18_OpenHasFailureTime ==
    /\ [](state = OPEN => last_failure_time # None)
    /\ [](\A t \in Threads : pc[t] = "elapsed" => last_failure_time # None)
    /\ [][last_failure_time # None => last_failure_time' # None]_vars

C18_Witness ==
    /\ state = OPEN /\ last_failure_time # None
    /\ \E t \in Threads, u \in Threads :
           pc[t] = "elapsed" /\ pc[u] = "succ_state"

\* C19: once the backend has recovered, no failure remains to be reported
\* and the clock can still pass timeout beyond the last failure, the breaker
\* reaches CLOSED with failure_count 0; from then on the state is never OPEN
\* and every request calls func and ends with live products.
Settled ==
    /\ Healed
    /\ \A t \in Threads :
           pc[t] \notin {"fail_read", "fail_write", "fail_time", "fail_cmp",
                         "fail_open"}
    /\ last_failure_time # None => LastInstant - Val(last_failure_time) > timeout

Recovered == Settled /\ state = CLOSED /\ failure_count = 0

C19_EventualRecovery ==
    /\ Settled ~> Recovered
    /\ [][/\ (Settled /\ state # OPEN) => (Settled /\ state # OPEN)'
          /\ \A t \in Threads : (Settled /\ state # OPEN /\ Stepped(t)) =>
                 /\ pc[t] = "check" => pc'[t] = "inflight"
                 /\ pc[t] = "inflight" => pc'[t] = "store_data"
                 /\ pc[t] = "store_data" => pc'[t] = "store_ts"
                 /\ pc[t] = "store_ts" => pc'[t] = "succ_count"
                 /\ pc[t] = "succ_count" => pc'[t] = "succ_state"
                 /\ pc[t] = "succ_state" => Live(t)'
         ]_vars

C19_Witness ==
    /\ Recovered /\ streak = 0
    /\ \E t \in Threads, u \in Threads :
           /\ Live(t) /\ last_failure_time # None /\ FailureAge > timeout
           /\ pc[u] = "elapsed"
====
